---- MODULE Spec2Model ----
(***************************************************************************)
(* Model of subspace-core-primitives (crates/subspace-core-primitives/src/ *)
(* lib.rs): the fixed-width integer U256 and the bidirectional distance,   *)
(* LegacySectorId derivations, the segment header chain, LastArchivedBlock *)
(* and the Solution record.                                                *)
(*                                                                         *)
(* Widths are scaled down so that every value can be enumerated: a byte    *)
(* has ByteBits bits (8 in the source), a limb (u64) has LimbBytes bytes   *)
(* (8 in the source) and U256 has NumLimbs limbs (4 in the source).  The   *)
(* arithmetic is done limb by limb with carries, as the uint crate does,   *)
(* and the claims compare it with exact arithmetic on Val(x).              *)
(***************************************************************************)
EXTENDS Integers, Sequences, FiniteSets, TLC

(* ------------------------------------------------------------------ *)
(* Widths                                                             *)
(* ------------------------------------------------------------------ *)

\* bits of a u8 (scaled from 8)
ByteBits == 1

\* bytes of a u64 limb (scaled from 8)
LimbBytes == 2

\* limbs of U256: construct_uint! { pub struct U256(4); } (scaled)
NumLimbs == 3

RECURSIVE Pow(_, _)
Pow(base, n) == IF n = 0 THEN 1 ELSE base * Pow(base, n - 1)

ByteMod == Pow(2, ByteBits)

LimbMod == Pow(ByteMod, LimbBytes)

\* u64::MAX
U64_MAX == LimbMod - 1

U64 == 0 .. U64_MAX

U8 == 0 .. (ByteMod - 1)

\* [u8; 32]
NumBytes == NumLimbs * LimbBytes

ByteArray == [1 .. NumBytes -> U8]

\* private_u256::U256: NumLimbs limbs, the least significant first
U256 == [1 .. NumLimbs -> U64]

\* the number a U256 stands for
RECURSIVE ValFrom(_, _)
ValFrom(x, i) == IF i > Len(x) THEN 0 ELSE x[i] + LimbMod * ValFrom(x, i + 1)

Val(x) == ValFrom(x, 1)

\* 2^256
Modulus == Pow(LimbMod, NumLimbs)

\* Option<T>: None is the empty sequence, Some(v) the sequence of v alone
None == <<>>

Some(v) == <<v>>

IsSome(o) == Len(o) = 1

Unwrap(o) == o[1]

(* ------------------------------------------------------------------ *)
(* U256                                                               *)
(* ------------------------------------------------------------------ *)

\* U256::zero()
zero == [i \in 1 .. NumLimbs |-> 0]

\* U256::one()
one == [i \in 1 .. NumLimbs |-> IF i = 1 THEN 1 ELSE 0]

\* U256::MAX
MAX == [i \in 1 .. NumLimbs |-> U64_MAX]

\* U256::MIDDLE: every limb u64::MAX but the most significant, u64::MAX / 2
MIDDLE == [i \in 1 .. NumLimbs |-> IF i = NumLimbs THEN U64_MAX \div 2 ELSE U64_MAX]

\* impl From<u64> for U256
FromU64(number) == [i \in 1 .. NumLimbs |-> IF i = 1 THEN number ELSE 0]

\* limbs i.. of a + b with the carry coming in, and the carry going out
RECURSIVE AddLimbs(_, _, _, _)
AddLimbs(x, y, i, carry) ==
    IF i > NumLimbs THEN <<<<>>, carry>>
    ELSE LET s == x[i] + y[i] + carry
             rest == AddLimbs(x, y, i + 1, s \div LimbMod)
         IN <<<<s % LimbMod>> \o rest[1], rest[2]>>

\* uint overflowing_add: (wrapped sum, overflow flag)
overflowing_add(x, y) ==
    LET r == AddLimbs(x, y, 1, 0) IN <<r[1], r[2] # 0>>

\* limbs i.. of a - b with the borrow coming in, and the borrow going out
RECURSIVE SubLimbs(_, _, _, _)
SubLimbs(x, y, i, borrow) ==
    IF i > NumLimbs THEN <<<<>>, borrow>>
    ELSE LET d == x[i] - y[i] - borrow
             out == IF d < 0 THEN 1 ELSE 0
             rest == SubLimbs(x, y, i + 1, out)
         IN <<<<(d + LimbMod) % LimbMod>> \o rest[1], rest[2]>>

\* uint overflowing_sub: (wrapped difference, underflow flag)
overflowing_sub(x, y) ==
    LET r == SubLimbs(x, y, 1, 0) IN <<r[1], r[2] # 0>>

\* sum of the limb products x[i] * y[j] that land in column k (i + j - 1 = k)
RECURSIVE Column(_, _, _, _)
Column(x, y, k, i) ==
    IF i > NumLimbs THEN 0
    ELSE (IF k - i + 1 >= 1 /\ k - i + 1 <= NumLimbs THEN x[i] * y[k - i + 1] ELSE 0)
         + Column(x, y, k, i + 1)

\* limbs k.. of the full 2 * NumLimbs limb product
RECURSIVE MulLimbs(_, _, _, _)
MulLimbs(x, y, k, carry) ==
    IF k > 2 * NumLimbs THEN <<>>
    ELSE LET s == Column(x, y, k, 1) + carry
         IN <<s % LimbMod>> \o MulLimbs(x, y, k + 1, s \div LimbMod)

\* uint overflowing_mul: (low limbs of the product, whether a high limb is set)
overflowing_mul(x, y) ==
    LET p == MulLimbs(x, y, 1, 0)
    IN <<SubSeq(p, 1, NumLimbs), \E k \in (NumLimbs + 1) .. (2 * NumLimbs) : p[k] # 0>>

\* the U256 of a number below 2^256
RECURSIVE LimbsOf(_, _)
LimbsOf(n, count) ==
    IF count = 0 THEN <<>> ELSE <<n % LimbMod>> \o LimbsOf(n \div LimbMod, count - 1)

FromVal(n) == LimbsOf(n, NumLimbs)

\* uint Div and Rem (derive_more Div, Rem on the wrapper): quotient and remainder
Div(x, y) == FromVal(Val(x) \div Val(y))

\* Rem that returns the quotient
RemReturnsQuotient(x, y) == FromVal(Val(x) \div Val(y))

Rem(x, y) == FromVal(Val(x) % Val(y))

\* derived Ord: limbs compared from the most significant down
RECURSIVE CmpFrom(_, _, _)
CmpFrom(x, y, i) ==
    IF i = 0 THEN 0
    ELSE IF x[i] < y[i] THEN -1
    ELSE IF x[i] > y[i] THEN 1
    ELSE CmpFrom(x, y, i - 1)

Cmp(x, y) == CmpFrom(x, y, NumLimbs)

\* Min with the comparison turned round: the larger of the two
MinTakesLarger(x, y) == IF Cmp(x, y) = 1 THEN x ELSE y

\* Ord::min: the first argument unless the second is smaller
Min(x, y) == IF Cmp(x, y) = 1 THEN y ELSE x

\* u64::to_le_bytes of one limb
LimbToLeBytes(l) == [k \in 1 .. LimbBytes |-> (l \div Pow(ByteMod, k - 1)) % ByteMod]

\* u64::from_le_bytes of one limb
RECURSIVE LimbFromLeBytes(_, _)
LimbFromLeBytes(bytes, k) ==
    IF k > Len(bytes) THEN 0 ELSE bytes[k] + ByteMod * LimbFromLeBytes(bytes, k + 1)

\* uint to_little_endian: limb i at bytes 8i .. 8i+8, each limb little endian
to_little_endian(x) ==
    [p \in 1 .. NumBytes |->
        LimbToLeBytes(x[((p - 1) \div LimbBytes) + 1])[((p - 1) % LimbBytes) + 1]]

\* to_big_endian that reverses the limbs but leaves each limb little endian
ToBigEndianLimbsOnly(x) ==
    [p \in 1 .. NumBytes |->
        LimbToLeBytes(x[NumLimbs - ((p - 1) \div LimbBytes)])[((p - 1) % LimbBytes) + 1]]

\* uint to_big_endian: limb n-i-1 at bytes 8i .. 8i+8, each limb big endian
to_big_endian(x) ==
    [p \in 1 .. NumBytes |->
        LimbToLeBytes(x[NumLimbs - ((p - 1) \div LimbBytes)])[LimbBytes - ((p - 1) % LimbBytes)]]

\* uint from_little_endian of a full-width slice
from_little_endian(bytes) ==
    [i \in 1 .. NumLimbs |->
        LimbFromLeBytes([k \in 1 .. LimbBytes |-> bytes[(i - 1) * LimbBytes + k]], 1)]

\* uint from_big_endian of a full-width slice
from_big_endian(bytes) ==
    [i \in 1 .. NumLimbs |->
        LimbFromLeBytes([k \in 1 .. LimbBytes |-> bytes[(NumLimbs - i) * LimbBytes + (LimbBytes - k + 1)]], 1)]

\* U256::from_be_bytes
from_be_bytes(bytes) == from_big_endian(bytes)

\* U256::to_be_bytes
to_be_bytes(x) == to_big_endian(x)

\* U256::from_le_bytes
from_le_bytes(bytes) == from_little_endian(bytes)

\* U256::to_le_bytes
to_le_bytes(x) == to_little_endian(x)

\* U256::checked_add
checked_add(x, v) ==
    LET r == overflowing_add(x, v) IN IF r[2] THEN None ELSE Some(r[1])

\* U256::checked_sub
checked_sub(x, v) ==
    LET r == overflowing_sub(x, v) IN IF r[2] THEN None ELSE Some(r[1])

\* checked_mul that drops the overflow flag
CheckedMulWraps(x, v) == Some(overflowing_mul(x, v)[1])

\* U256::checked_mul
checked_mul(x, v) ==
    LET r == overflowing_mul(x, v) IN IF r[2] THEN None ELSE Some(r[1])

\* U256::checked_div
checked_div(x, v) == IF v = zero THEN None ELSE Some(Div(x, v))

\* U256::saturating_add
saturating_add(x, v) ==
    LET r == overflowing_add(x, v) IN IF r[2] THEN MAX ELSE r[1]

\* saturating_sub that wraps on underflow
SaturatingSubWraps(x, v) == overflowing_sub(x, v)[1]

\* U256::saturating_sub
saturating_sub(x, v) ==
    LET r == overflowing_sub(x, v) IN IF r[2] THEN zero ELSE r[1]

\* U256::saturating_mul
saturating_mul(x, v) ==
    LET r == overflowing_mul(x, v) IN IF r[2] THEN MAX ELSE r[1]

\* impl WrappingAdd for U256
wrapping_add(x, other) == overflowing_add(x, other)[1]

\* a subtraction that takes each limb apart and passes no borrow on
WrappingSubDropsBorrow(x, other) ==
    [i \in 1 .. NumLimbs |-> (x[i] - other[i]) % LimbMod]

\* impl WrappingSub for U256
wrapping_sub(x, other) == overflowing_sub(x, other)[1]

\* bidirectional_distance that measures one direction only
DistanceOneWay(x, y) == wrapping_sub(x, y)

\* bidirectional_distance::<U256>
bidirectional_distance(x, y) ==
    LET diff == wrapping_sub(x, y)
        diff2 == wrapping_sub(y, x)
    IN Min(diff, diff2)

\* a conversion that keeps the lowest limb and drops the rest
TryFromTruncates(value) == [ok |-> TRUE, val |-> value[1]]

\* impl TryFrom<U256> for u64: Err unless the value fits the lowest limb
try_from_u64(value) ==
    IF \E i \in 2 .. NumLimbs : value[i] # 0
    THEN [ok |-> FALSE, val |-> "integer overflow when casting to u64"]
    ELSE [ok |-> TRUE, val |-> value[1]]

(* ------------------------------------------------------------------ *)
(* LegacySectorId                                                     *)
(* ------------------------------------------------------------------ *)

\* PieceIndex::to_bytes: the little-endian bytes of the u64 index
to_bytes(piece_index_value) == LimbToLeBytes(piece_index_value)

\* the sector IDs the derivations are tried on (a LegacySectorId is any hash)
SectorIdSamples ==
    {[p \in 1 .. NumBytes |-> 0], [p \in 1 .. NumBytes |-> ByteMod - 1]}

(* ------------------------------------------------------------------ *)
(* ArchivedBlockProgress, LastArchivedBlock                           *)
(* ------------------------------------------------------------------ *)

\* largest block number tried
MaxBlockNumber == 2

\* largest number of partially archived bytes tried
MaxPartial == 3

\* most calls made on one LastArchivedBlock
MaxCalls == 3

\* ArchivedBlockProgress::Complete
Complete == <<"Complete">>

\* ArchivedBlockProgress::Partial(u32)
Partial(number) == <<"Partial", number>>

\* impl Default for ArchivedBlockProgress
ArchivedBlockProgressDefault == Complete

\* ArchivedBlockProgress::partial
partial(progress) ==
    IF progress[1] = "Complete" THEN None ELSE Some(progress[2])

\* ArchivedBlockProgress::set_partial: the new value of *self
set_partial(progress, new_partial) == Partial(new_partial)

\* LastArchivedBlock::partial_archived
partial_archived(block) == partial(block.archived_progress)

\* LastArchivedBlock::set_partial_archived: the new value of *self
set_partial_archived(block, new_partial) ==
    [block EXCEPT !.archived_progress = set_partial(block.archived_progress, new_partial)]

\* set_complete that leaves the progress as it was
SetCompleteKeepsProgress(block) == block

\* LastArchivedBlock::set_complete: the new value of *self
set_complete(block) == [block EXCEPT !.archived_progress = Complete]

(* ------------------------------------------------------------------ *)
(* SegmentHeader                                                      *)
(* ------------------------------------------------------------------ *)

\* most headers in a chain
MaxSegments == 3

\* segment commitments tried (an opaque KZG commitment)
SegmentCommitments == {"c1", "c2"}

\* last archived blocks recorded in headers
LastArchivedBlockSamples ==
    { [number |-> 0, archived_progress |-> Complete],
      [number |-> 1, archived_progress |-> Complete],
      [number |-> 1, archived_progress |-> Partial(0)],
      [number |-> 1, archived_progress |-> Partial(7)] }

\* SegmentHeader::V0 { .. }
V0(index, commitment, prev_hash, block) ==
    [ segment_index |-> index,
      segment_commitment |-> commitment,
      prev_segment_header_hash |-> prev_hash,
      last_archived_block |-> block ]

\* an encoding of ArchivedBlockProgress that writes the variant index only
EncodeVariantIndexOnly(progress) ==
    IF progress[1] = "Complete" THEN <<0>> ELSE <<1>>

\* derive(Encode) for ArchivedBlockProgress: the variant index, then its field
EncodeArchivedBlockProgress(progress) ==
    IF progress[1] = "Complete" THEN <<0>> ELSE <<1, progress[2]>>

\* derive(Encode) for LastArchivedBlock: the fields in declaration order
EncodeLastArchivedBlock(block) ==
    <<block.number>> \o EncodeArchivedBlockProgress(block.archived_progress)

\* derive(Encode) for SegmentHeader: #[codec(index = 0)], then the fields of V0
\* in declaration order (each fixed-width field is one item here)
Encode(header) ==
    <<0, header.segment_index, header.segment_commitment,
      header.prev_segment_header_hash>>
    \o EncodeLastArchivedBlock(header.last_archived_block)

\* crypto::blake2b_256_hash: an injective function of the bytes hashed
blake2b_256_hash(bytes) == <<"blake2b_256", bytes>>

\* SegmentHeader::hash
hash(header) == blake2b_256_hash(Encode(header))

\* SegmentHeader::segment_index
segment_index(header) == header.segment_index

\* SegmentHeader::segment_commitment
segment_commitment(header) == header.segment_commitment

\* SegmentHeader::prev_segment_header_hash
prev_segment_header_hash(header) == header.prev_segment_header_hash

\* SegmentHeader::last_archived_block
last_archived_block_of(header) == header.last_archived_block

\* prev_segment_header_hash of the first header: the all-zero hash
GenesisHash == <<"zero">>

(* ------------------------------------------------------------------ *)
(* Solution                                                           *)
(* ------------------------------------------------------------------ *)

\* largest sector index, piece offset and chunk offset tried
MaxIndex == 1

\* the reward address types of into_reward_address_format
RewardAddressA == {"a1", "a2"}

IntermediateT == {"t1", "t2"}

RewardAddressB == {"b1", "b2"}

PublicKeys == {"pk1", "pk2"}

\* Scalar, Witness and ScalarLegacy values: the default and one other
Scalars == {"Scalar::default", "scalar1"}

Witnesses == {"Witness::default", "witness1"}

ScalarLegacys == {"ScalarLegacy::default", "legacy1"}

\* [0; n]
Zeros(n) == [p \in 1 .. n |-> 0]

\* VRF_OUTPUT_LENGTH (32, the width of a hash) and VRF_PROOF_LENGTH (64)
VRF_OUTPUT_LENGTH == NumBytes

VRF_PROOF_LENGTH == 2 * NumBytes

ChunkSignatures ==
    { [output |-> Zeros(VRF_OUTPUT_LENGTH), proof |-> Zeros(VRF_PROOF_LENGTH)],
      [output |-> [p \in 1 .. VRF_OUTPUT_LENGTH |-> 1],
       proof |-> [p \in 1 .. VRF_PROOF_LENGTH |-> 1]] }

\* struct Solution<PublicKey, RewardAddress>
Solutions(RewardAddresses) ==
    [ public_key : PublicKeys,
      reward_address : RewardAddresses,
      sector_index : 0 .. MaxIndex,
      total_pieces : 1 .. (MaxIndex + 1),
      piece_offset : 0 .. MaxIndex,
      record_commitment_hash : Scalars,
      piece_witness : Witnesses,
      chunk_offset : 0 .. MaxIndex,
      chunk : ScalarLegacys,
      chunk_signature : ChunkSignatures ]

\* into_reward_address_format with piece_offset and chunk_offset swapped
IntoRewardAddressFormatSwapsOffsets(self, intoT, intoB) ==
    [ public_key |-> self.public_key,
      reward_address |-> intoB[intoT[self.reward_address]],
      sector_index |-> self.sector_index,
      total_pieces |-> self.total_pieces,
      piece_offset |-> self.chunk_offset,
      record_commitment_hash |-> self.record_commitment_hash,
      piece_witness |-> self.piece_witness,
      chunk_offset |-> self.piece_offset,
      chunk |-> self.chunk,
      chunk_signature |-> self.chunk_signature ]

\* Solution::into_reward_address_format::<T, RewardAddressB>, with the two Into
\* conversions the caller's types supply
into_reward_address_format(self, intoT, intoB) ==
    [ public_key |-> self.public_key,
      reward_address |-> intoB[intoT[self.reward_address]],
      sector_index |-> self.sector_index,
      total_pieces |-> self.total_pieces,
      piece_offset |-> self.piece_offset,
      record_commitment_hash |-> self.record_commitment_hash,
      piece_witness |-> self.piece_witness,
      chunk_offset |-> self.chunk_offset,
      chunk |-> self.chunk,
      chunk_signature |-> self.chunk_signature ]

\* genesis_solution that copies the width of the output into the proof
GenesisSolutionShortProof(public_key_value, reward_address_value) ==
    [ public_key |-> public_key_value,
      reward_address |-> reward_address_value,
      sector_index |-> 0,
      total_pieces |-> 1,
      piece_offset |-> 0,
      record_commitment_hash |-> "Scalar::default",
      piece_witness |-> "Witness::default",
      chunk_offset |-> 0,
      chunk |-> "ScalarLegacy::default",
      chunk_signature |->
          [output |-> Zeros(VRF_OUTPUT_LENGTH), proof |-> Zeros(VRF_OUTPUT_LENGTH)] ]

\* Solution::genesis_solution
genesis_solution(public_key_value, reward_address_value) ==
    [ public_key |-> public_key_value,
      reward_address |-> reward_address_value,
      sector_index |-> 0,
      total_pieces |-> 1,
      piece_offset |-> 0,
      record_commitment_hash |-> "Scalar::default",
      piece_witness |-> "Witness::default",
      chunk_offset |-> 0,
      chunk |-> "ScalarLegacy::default",
      chunk_signature |->
          [output |-> Zeros(VRF_OUTPUT_LENGTH), proof |-> Zeros(VRF_PROOF_LENGTH)] ]

(* ------------------------------------------------------------------ *)
(* State                                                              *)
(* ------------------------------------------------------------------ *)
VARIABLES
    a,                      \* first operand (self)
    b,                      \* second operand (v / other)
    op,                     \* the U256 operation applied last, "init" before any
    res,                    \* what it returned
    sector_id,              \* a LegacySectorId
    piece_offset,           \* argument of derive_piece_index
    total_pieces,           \* argument of derive_piece_index (NonZeroU64)
    keyed_hash,             \* the keyed hash at the points the derivations use
    piece_index,            \* what derive_piece_index returned, None before
    last_archived_block,    \* a LastArchivedBlock
    calls,                  \* the calls made on it, in order
    headers,                \* the chain of segment headers, index 0 first
    mutated,                \* position of the header overwritten, 0 if none
    solution,               \* a Solution<PublicKey, RewardAddressA>
    into_t,                 \* Into<T> for RewardAddressA, as used
    into_b,                 \* Into<RewardAddressB> for T, as used
    sol_op,                 \* the Solution function applied, "init" before any
    output,                 \* the Solution it returned
    global_challenge,       \* argument of derive_local_challenge
    local_challenge,        \* what derive_local_challenge returned, None before
    stream_open,            \* the notification stream has not ended
    received,               \* segment indices of the notifications processed, in order
    last_published_segment_index,   \* the archiver's local of that name
    tasks,                  \* the segment-publishing tasks spawned, in order
    puts                    \* the put_value calls made: key and value

u256vars == <<a, b, op, res>>

sectorvars == <<sector_id, piece_offset, total_pieces, keyed_hash, piece_index>>

archivedvars == <<last_archived_block, calls>>

headervars == <<headers, mutated>>

solutionvars == <<solution, into_t, into_b, sol_op, output>>

challengevars == <<global_challenge, local_challenge>>

dsnvars == <<stream_open, received, last_published_segment_index, tasks, puts>>

vars == <<u256vars, sectorvars, archivedvars, headervars, solutionvars,
          challengevars, dsnvars>>

\* the parts of the state a specification does not use stay as they are here
IdleU256 == a = zero /\ b = zero /\ op = "init" /\ res = None

IdleSector ==
    /\ sector_id = Zeros(NumBytes)
    /\ piece_offset = 0
    /\ total_pieces = 1
    /\ keyed_hash = <<>>
    /\ piece_index = None

IdleArchived ==
    /\ last_archived_block = [number |-> 0, archived_progress |-> ArchivedBlockProgressDefault]
    /\ calls = <<>>

IdleHeaders == headers = <<>> /\ mutated = 0

IdleSolution ==
    /\ solution = genesis_solution("pk1", "a1")
    /\ into_t = <<>>
    /\ into_b = <<>>
    /\ sol_op = "init"
    /\ output = None

IdleChallenge == global_challenge = Zeros(NumBytes) /\ local_challenge = None

IdleDsn ==
    /\ stream_open = FALSE
    /\ received = <<>>
    /\ last_published_segment_index = None
    /\ tasks = <<>>
    /\ puts = {}

(* ------------------------------------------------------------------ *)
(* U256 arithmetic on a pair of operands                              *)
(* ------------------------------------------------------------------ *)

InitU256 ==
    /\ a \in U256
    /\ b \in U256
    /\ op = "init"
    /\ res = None
    /\ IdleSector /\ IdleArchived /\ IdleHeaders /\ IdleSolution /\ IdleChallenge /\ IdleDsn

CheckedAdd ==
    /\ op = "init"
    /\ op' = "checked_add"
    /\ res' = checked_add(a, b)
    /\ UNCHANGED <<a, b, sectorvars, archivedvars, headervars, solutionvars, challengevars, dsnvars>>

CheckedSub ==
    /\ op = "init"
    /\ op' = "checked_sub"
    /\ res' = checked_sub(a, b)
    /\ UNCHANGED <<a, b, sectorvars, archivedvars, headervars, solutionvars, challengevars, dsnvars>>

CheckedMul ==
    /\ op = "init"
    /\ op' = "checked_mul"
    /\ res' = checked_mul(a, b)
    /\ UNCHANGED <<a, b, sectorvars, archivedvars, headervars, solutionvars, challengevars, dsnvars>>

CheckedDiv ==
    /\ op = "init"
    /\ op' = "checked_div"
    /\ res' = checked_div(a, b)
    /\ UNCHANGED <<a, b, sectorvars, archivedvars, headervars, solutionvars, challengevars, dsnvars>>

SaturatingAdd ==
    /\ op = "init"
    /\ op' = "saturating_add"
    /\ res' = saturating_add(a, b)
    /\ UNCHANGED <<a, b, sectorvars, archivedvars, headervars, solutionvars, challengevars, dsnvars>>

SaturatingSub ==
    /\ op = "init"
    /\ op' = "saturating_sub"
    /\ res' = saturating_sub(a, b)
    /\ UNCHANGED <<a, b, sectorvars, archivedvars, headervars, solutionvars, challengevars, dsnvars>>

SaturatingMul ==
    /\ op = "init"
    /\ op' = "saturating_mul"
    /\ res' = saturating_mul(a, b)
    /\ UNCHANGED <<a, b, sectorvars, archivedvars, headervars, solutionvars, challengevars, dsnvars>>

WrappingAdd ==
    /\ op = "init"
    /\ op' = "wrapping_add"
    /\ res' = wrapping_add(a, b)
    /\ UNCHANGED <<a, b, sectorvars, archivedvars, headervars, solutionvars, challengevars, dsnvars>>

WrappingSub ==
    /\ op = "init"
    /\ op' = "wrapping_sub"
    /\ res' = wrapping_sub(a, b)
    /\ UNCHANGED <<a, b, sectorvars, archivedvars, headervars, solutionvars, challengevars, dsnvars>>

BidirectionalDistance ==
    /\ op = "init"
    /\ op' = "bidirectional_distance"
    /\ res' = bidirectional_distance(a, b)
    /\ UNCHANGED <<a, b, sectorvars, archivedvars, headervars, solutionvars, challengevars, dsnvars>>

NextU256 ==
    \/ CheckedAdd
    \/ CheckedSub
    \/ CheckedMul
    \/ CheckedDiv
    \/ SaturatingAdd
    \/ SaturatingSub
    \/ SaturatingMul
    \/ WrappingAdd
    \/ WrappingSub
    \/ BidirectionalDistance

SpecU256 == InitU256 /\ [][NextU256]_vars

(* ------------------------------------------------------------------ *)
(* U256 byte conversions of one value                                 *)
(* ------------------------------------------------------------------ *)

InitBytes ==
    /\ a \in U256
    /\ b = zero
    /\ op = "init"
    /\ res = None
    /\ IdleSector /\ IdleArchived /\ IdleHeaders /\ IdleSolution /\ IdleChallenge /\ IdleDsn

ToBeBytes ==
    /\ op = "init"
    /\ op' = "to_be_bytes"
    /\ res' = to_be_bytes(a)
    /\ UNCHANGED <<a, b, sectorvars, archivedvars, headervars, solutionvars, challengevars, dsnvars>>

ToLeBytes ==
    /\ op = "init"
    /\ op' = "to_le_bytes"
    /\ res' = to_le_bytes(a)
    /\ UNCHANGED <<a, b, sectorvars, archivedvars, headervars, solutionvars, challengevars, dsnvars>>

\* from_be_bytes of the bytes to_be_bytes returned
FromBeBytes ==
    /\ op = "to_be_bytes"
    /\ op' = "from_be_bytes"
    /\ res' = from_be_bytes(res)
    /\ UNCHANGED <<a, b, sectorvars, archivedvars, headervars, solutionvars, challengevars, dsnvars>>

\* from_le_bytes of the bytes to_le_bytes returned
FromLeBytes ==
    /\ op = "to_le_bytes"
    /\ op' = "from_le_bytes"
    /\ res' = from_le_bytes(res)
    /\ UNCHANGED <<a, b, sectorvars, archivedvars, headervars, solutionvars, challengevars, dsnvars>>

TryFromU64 ==
    /\ op = "init"
    /\ op' = "try_from"
    /\ res' = try_from_u64(a)
    /\ UNCHANGED <<a, b, sectorvars, archivedvars, headervars, solutionvars, challengevars, dsnvars>>

NextBytes ==
    \/ ToBeBytes
    \/ ToLeBytes
    \/ FromBeBytes
    \/ FromLeBytes
    \/ TryFromU64

SpecBytes == InitBytes /\ [][NextBytes]_vars

(* ------------------------------------------------------------------ *)
(* LegacySectorId::derive_piece_index                                 *)
(* ------------------------------------------------------------------ *)

\* crypto::blake2b_256_hash_with_key: a function of the data and the key, whose
\* value at each point used is arbitrary and fixed (keyed_hash holds it)
blake2b_256_hash_with_key(data, key) == keyed_hash[<<data, key>>]

\* LegacySectorId::derive_piece_index: the PieceIndex, or the panic of expect
derive_piece_index(self, offset, total) ==
    LET index == Rem(from_le_bytes(blake2b_256_hash_with_key(to_bytes(offset), self)),
                     FromU64(total))
        converted == try_from_u64(index)
    IN IF converted.ok
       THEN <<"PieceIndex", converted.val>>
       ELSE <<"panic", "Remainder of division by PieceIndex is guaranteed to fit into PieceIndex; qed">>

InitSector ==
    /\ sector_id \in SectorIdSamples
    /\ piece_offset \in U64
    /\ total_pieces \in 1 .. U64_MAX
    /\ keyed_hash \in [{<<to_bytes(piece_offset), sector_id>>} -> ByteArray]
    /\ piece_index = None
    /\ IdleU256 /\ IdleArchived /\ IdleHeaders /\ IdleSolution /\ IdleChallenge /\ IdleDsn

DerivePieceIndex ==
    /\ piece_index = None
    /\ piece_index' = derive_piece_index(sector_id, piece_offset, total_pieces)
    /\ UNCHANGED <<sector_id, piece_offset, total_pieces, keyed_hash>>
    /\ UNCHANGED <<u256vars, archivedvars, headervars, solutionvars, challengevars, dsnvars>>

NextSector == DerivePieceIndex

SpecSector == InitSector /\ [][NextSector]_vars

(* ------------------------------------------------------------------ *)
(* LegacySectorId::derive_local_challenge                             *)
(* ------------------------------------------------------------------ *)

\* the global challenges the derivation is tried on (any Blake2b256Hash)
GlobalChallengeSamples ==
    {[p \in 1 .. NumBytes |-> 0], [p \in 1 .. NumBytes |-> p % ByteMod]}

RECURSIVE SolutionRangeFromBeBytes(_, _)
\* SolutionRange::from_be_bytes (u64): the first k bytes, most significant first
SolutionRangeFromBeBytes(bytes, k) ==
    IF k = 0 THEN 0 ELSE ByteMod * SolutionRangeFromBeBytes(bytes, k - 1) + bytes[k]

\* SolutionRange::from_le_bytes in place of from_be_bytes
DeriveLocalChallengeLittleEndian(self, challenge) ==
    LET digest == blake2b_256_hash_with_key(challenge, self)
    IN LimbFromLeBytes([k \in 1 .. LimbBytes |-> digest[k]], 1)

\* LegacySectorId::derive_local_challenge: the leading bytes of the keyed hash
\* of the global challenge, as many as a u64 has, read big-endian
derive_local_challenge(self, challenge) ==
    LET digest == blake2b_256_hash_with_key(challenge, self)
    IN SolutionRangeFromBeBytes([k \in 1 .. LimbBytes |-> digest[k]], LimbBytes)

InitChallenge ==
    /\ sector_id \in SectorIdSamples
    /\ global_challenge \in GlobalChallengeSamples
    /\ keyed_hash \in [{<<global_challenge, sector_id>>} -> ByteArray]
    /\ local_challenge = None
    /\ piece_offset = 0
    /\ total_pieces = 1
    /\ piece_index = None
    /\ IdleU256 /\ IdleArchived /\ IdleHeaders /\ IdleSolution /\ IdleDsn

DeriveLocalChallenge ==
    /\ local_challenge = None
    /\ local_challenge' = Some(derive_local_challenge(sector_id, global_challenge))
    /\ UNCHANGED global_challenge
    /\ UNCHANGED <<u256vars, sectorvars, archivedvars, headervars, solutionvars, dsnvars>>

NextChallenge == DeriveLocalChallenge

SpecChallenge == InitChallenge /\ [][NextChallenge]_vars

(* ------------------------------------------------------------------ *)
(* LastArchivedBlock                                                  *)
(* ------------------------------------------------------------------ *)

InitArchived ==
    /\ last_archived_block \in
          [number : 0 .. MaxBlockNumber, archived_progress : {ArchivedBlockProgressDefault}]
    /\ calls = <<>>
    /\ IdleU256 /\ IdleSector /\ IdleHeaders /\ IdleSolution /\ IdleChallenge /\ IdleDsn

SetPartialArchived ==
    /\ Len(calls) < MaxCalls
    /\ \E new_partial \in 0 .. MaxPartial :
          /\ last_archived_block' = set_partial_archived(last_archived_block, new_partial)
          /\ calls' = Append(calls, <<"set_partial_archived", new_partial>>)
    /\ UNCHANGED <<u256vars, sectorvars, headervars, solutionvars, challengevars, dsnvars>>

SetComplete ==
    /\ Len(calls) < MaxCalls
    /\ last_archived_block' = set_complete(last_archived_block)
    /\ calls' = Append(calls, <<"set_complete">>)
    /\ UNCHANGED <<u256vars, sectorvars, headervars, solutionvars, challengevars, dsnvars>>

NextArchived ==
    \/ SetPartialArchived
    \/ SetComplete

SpecArchived == InitArchived /\ [][NextArchived]_vars

(* ------------------------------------------------------------------ *)
(* The segment header chain                                           *)
(* ------------------------------------------------------------------ *)

InitHeaders ==
    /\ headers = <<>>
    /\ mutated = 0
    /\ IdleU256 /\ IdleSector /\ IdleArchived /\ IdleSolution /\ IdleChallenge /\ IdleDsn

\* the archiver appends the header of the next segment: its index follows the
\* last one and its prev_segment_header_hash is the last header's hash()
AppendSegmentHeader ==
    /\ mutated = 0
    /\ Len(headers) < MaxSegments
    /\ \E commitment \in SegmentCommitments, block \in LastArchivedBlockSamples :
          headers' = Append(headers,
              V0(Len(headers), commitment,
                 IF headers = <<>> THEN GenesisHash ELSE hash(headers[Len(headers)]),
                 block))
    /\ UNCHANGED mutated
    /\ UNCHANGED <<u256vars, sectorvars, archivedvars, solutionvars, challengevars, dsnvars>>

\* the hashes a prev_segment_header_hash may be overwritten with
KnownHashes == {GenesisHash} \cup {hash(headers[i]) : i \in 1 .. Len(headers)}

\* the headers that differ from header in exactly one field
OneFieldChanged(header) ==
    ( {[header EXCEPT !.segment_index = v] : v \in 0 .. MaxSegments}
      \cup {[header EXCEPT !.segment_commitment = v] : v \in SegmentCommitments}
      \cup {[header EXCEPT !.prev_segment_header_hash = v] : v \in KnownHashes}
      \cup {[header EXCEPT !.last_archived_block = v] : v \in LastArchivedBlockSamples} )
    \ {header}

\* one field of a header that already has a successor is overwritten
MutateHeader ==
    /\ mutated = 0
    /\ \E j \in 1 .. (Len(headers) - 1) :
          \E changed \in OneFieldChanged(headers[j]) :
              /\ headers' = [headers EXCEPT ![j] = changed]
              /\ mutated' = j
    /\ UNCHANGED <<u256vars, sectorvars, archivedvars, solutionvars, challengevars, dsnvars>>

NextHeaders ==
    \/ AppendSegmentHeader
    \/ MutateHeader

SpecHeaders == InitHeaders /\ [][NextHeaders]_vars

(* ------------------------------------------------------------------ *)
(* Solution                                                           *)
(* ------------------------------------------------------------------ *)

InitSolution ==
    /\ solution \in Solutions(RewardAddressA)
    /\ into_t = <<>>
    /\ into_b = <<>>
    /\ sol_op = "init"
    /\ output = None
    /\ IdleU256 /\ IdleSector /\ IdleArchived /\ IdleHeaders /\ IdleChallenge /\ IdleDsn

IntoRewardAddressFormat ==
    /\ sol_op = "init"
    /\ \E intoT \in [RewardAddressA -> IntermediateT], intoB \in [IntermediateT -> RewardAddressB] :
          /\ into_t' = intoT
          /\ into_b' = intoB
          /\ output' = Some(into_reward_address_format(solution, intoT, intoB))
    /\ sol_op' = "into_reward_address_format"
    /\ UNCHANGED solution
    /\ UNCHANGED <<u256vars, sectorvars, archivedvars, headervars, challengevars, dsnvars>>

\* genesis_solution of the public key and the reward address of solution
GenesisSolution ==
    /\ sol_op = "init"
    /\ output' = Some(genesis_solution(solution.public_key, solution.reward_address))
    /\ sol_op' = "genesis_solution"
    /\ UNCHANGED <<solution, into_t, into_b>>
    /\ UNCHANGED <<u256vars, sectorvars, archivedvars, headervars, challengevars, dsnvars>>

NextSolution ==
    \/ IntoRewardAddressFormat
    \/ GenesisSolution

SpecSolution == InitSolution /\ [][NextSolution]_vars

(* ------------------------------------------------------------------ *)
(* start_dsn_archiver                                                 *)
(* ------------------------------------------------------------------ *)

\* pieces of one archived segment (a u32 constant of the primitives crate),
\* scaled down
PIECES_IN_SEGMENT == 2

\* largest segment index a notification carries.  Segment indices count the
\* segments archived so far, so segment_index * PIECES_IN_SEGMENT stays far
\* below 2^64 and the u64 product of the archiver is the exact product.
MaxSegmentIndex == 2

\* most notifications one run of the archiver receives
MaxNotifications == 3

\* the archived segment of a notification: the segment index of its root
\* block and its pieces, each piece told apart by its segment and position
ArchivedSegment(i) ==
    [root_block |-> [segment_index |-> i],
     pieces |-> [k \in 1 .. PIECES_IN_SEGMENT |-> <<"piece", i, k - 1>>]]

ArchivedSegments == {ArchivedSegment(i) : i \in 0 .. MaxSegmentIndex}

\* PieceIndexHash::from_index: the hash of the index, one hash per index
from_index(idx) == <<"PieceIndexHash", idx>>

\* ToMultihash::to_multihash: the hash wrapped as a multihash
to_multihash(piece_index_hash) == <<"Multihash", piece_index_hash>>

\* the piece index a key was derived from
IndexOfKey(key) == key[2][2]

\* the segment index taken for the first piece index
FirstPieceIndexUnscaled(index) == index

\* first_piece_index = segment_index * u64::from(PIECES_IN_SEGMENT)
first_piece_index(index) == index * PIECES_IN_SEGMENT

\* keys_iter: count indices from first on, each with the key derived from it
keys_iter(first, count) ==
    [k \in 1 .. count |-> <<first + k - 1, to_multihash(from_index(first + k - 1))>>]

\* a check that lets every notification through
NeverSkips(last, index) == FALSE

\* a check against the first piece index in place of the segment index
SkipComparesFirstPieceIndex(last, index) ==
    IsSome(last) /\ Unwrap(last) = first_piece_index(index)

\* "skip repeating publication": the segment index is the last published one
skip_publication(last, index) == IsSome(last) /\ Unwrap(last) = index

\* the pairs the publishing loop of a task runs over: keys_iter zipped with
\* the pieces, as long as the shorter of the two
Zipped(task) ==
    [k \in 1 .. (IF Len(task.keys_iter) <= Len(task.pieces)
                 THEN Len(task.keys_iter) ELSE Len(task.pieces))
        |-> <<task.keys_iter[k], task.pieces[k]>>]

InitDsn ==
    /\ stream_open = TRUE
    /\ received = <<>>
    /\ last_published_segment_index = None
    /\ tasks = <<>>
    /\ puts = {}
    /\ IdleU256 /\ IdleSector /\ IdleArchived /\ IdleHeaders /\ IdleSolution /\ IdleChallenge

\* one pass of the while loop: the stream yields a notification, which is
\* skipped or has its publishing task spawned
ProcessNotification(archived_segment) ==
    /\ stream_open
    /\ Len(received) < MaxNotifications
    /\ LET index == archived_segment.root_block.segment_index
       IN /\ received' = Append(received, index)
          /\ IF skip_publication(last_published_segment_index, index)
             THEN UNCHANGED <<last_published_segment_index, tasks>>
             ELSE /\ tasks' = Append(tasks,
                        [segment_index |-> index,
                         keys_iter |-> keys_iter(first_piece_index(index),
                                                 Len(archived_segment.pieces)),
                         pieces |-> archived_segment.pieces,
                         done |-> 0])
                  /\ last_published_segment_index' = Some(index)
    /\ UNCHANGED <<stream_open, puts>>
    /\ UNCHANGED <<u256vars, sectorvars, archivedvars, headervars, solutionvars, challengevars>>

\* the stream yields None and the while loop ends; spawned tasks run on
StreamEnds ==
    /\ stream_open
    /\ stream_open' = FALSE
    /\ UNCHANGED <<received, last_published_segment_index, tasks, puts>>
    /\ UNCHANGED <<u256vars, sectorvars, archivedvars, headervars, solutionvars, challengevars>>

\* one pass of the for loop of a segment-publishing task: put_value of the
\* next piece under the next key (its result is traced and dropped)
PutValue(t) ==
    /\ tasks[t].done < Len(Zipped(tasks[t]))
    /\ LET pair == Zipped(tasks[t])[tasks[t].done + 1]
       IN puts' = puts \cup {[key |-> pair[1][2], value |-> pair[2]]}
    /\ tasks' = [tasks EXCEPT ![t].done = @ + 1]
    /\ UNCHANGED <<stream_open, received, last_published_segment_index>>
    /\ UNCHANGED <<u256vars, sectorvars, archivedvars, headervars, solutionvars, challengevars>>

NextDsn ==
    \/ \E archived_segment \in ArchivedSegments : ProcessNotification(archived_segment)
    \/ StreamEnds
    \/ \E t \in 1 .. Len(tasks) : PutValue(t)

SpecDsn == InitDsn /\ [][NextDsn]_vars

(* ------------------------------------------------------------------ *)
(* Claims: U256 and bidirectional_distance                            *)
(* ------------------------------------------------------------------ *)

Reverse(seq) == [p \in 1 .. Len(seq) |-> seq[Len(seq) - p + 1]]

C2_DistanceSymmetric ==
    op = "bidirectional_distance" =>
        /\ res = bidirectional_distance(b, a)
        /\ (a = b => res = zero)

C2_Witness ==
    /\ op = "bidirectional_distance"
    /\ Val(a) = 1
    /\ b = MAX
    /\ Val(res) = 2

\* C5: a checked operation returns None exactly when the exact result is not
\* representable (sum above MAX, minuend below subtrahend, product above MAX,
\* zero divisor), and Some of the exact result otherwise; MAX.checked_add(1) and
\* 0.checked_sub(1) are None.
C5_CheckedExact ==
    /\ op = "checked_add" =>
          /\ IsSome(res) <=> (Val(a) + Val(b) <= Val(MAX))
          /\ IsSome(res) => Val(Unwrap(res)) = Val(a) + Val(b)
          /\ (a = MAX /\ b = one) => res = None
    /\ op = "checked_sub" =>
          /\ IsSome(res) <=> (Val(a) >= Val(b))
          /\ IsSome(res) => Val(Unwrap(res)) = Val(a) - Val(b)
          /\ (a = zero /\ b = one) => res = None
    /\ op = "checked_mul" =>
          /\ IsSome(res) <=> (Val(a) * Val(b) <= Val(MAX))
          /\ IsSome(res) => Val(Unwrap(res)) = Val(a) * Val(b)
    /\ op = "checked_div" =>
          /\ IsSome(res) <=> (b # zero)
          /\ IsSome(res) => Val(Unwrap(res)) = Val(a) \div Val(b)
    /\ op \in {"checked_add", "checked_sub", "checked_mul", "checked_div"} =>
          (res = None \/ (IsSome(res) /\ Unwrap(res) \in U256))

C5_Witness ==
    /\ op = "checked_mul"
    /\ res = None
    /\ Val(a) < LimbMod * LimbMod
    /\ Val(b) < LimbMod * LimbMod

\* C6: a saturating operation returns the exact result clamped to [0, MAX]:
\* min(a + b, MAX), max(a - b, 0), min(a * b, MAX); MAX.saturating_add(1) = MAX.
C6_SaturatingClamps ==
    /\ op = "saturating_add" =>
          /\ Val(res) = (IF Val(a) + Val(b) > Val(MAX) THEN Val(MAX) ELSE Val(a) + Val(b))
          /\ (a = MAX /\ b = one) => res = MAX
    /\ op = "saturating_sub" =>
          Val(res) = (IF Val(a) - Val(b) < 0 THEN 0 ELSE Val(a) - Val(b))
    /\ op = "saturating_mul" =>
          Val(res) = (IF Val(a) * Val(b) > Val(MAX) THEN Val(MAX) ELSE Val(a) * Val(b))
    /\ op \in {"saturating_add", "saturating_sub", "saturating_mul"} => res \in U256

C6_Witness ==
    /\ op = "saturating_sub"
    /\ Val(a) < Val(b)
    /\ res = zero

\* C7: from_be_bytes(to_be_bytes(x)) = x and from_le_bytes(to_le_bytes(x)) = x for
\* every x, and to_be_bytes(x) is to_le_bytes(x) with the bytes in reverse order.
C7_BytesRoundTrip ==
    /\ op = "from_be_bytes" => res = a
    /\ op = "from_le_bytes" => res = a
    /\ op = "to_be_bytes" => (res \in ByteArray /\ res = Reverse(to_le_bytes(a)))
    /\ op = "to_le_bytes" => (res \in ByteArray /\ to_be_bytes(a) = Reverse(res))

C7_Witness ==
    /\ op = "from_be_bytes"
    /\ res = a
    /\ to_be_bytes(a) # to_le_bytes(a)
    /\ a[1] = 1
    /\ a[NumLimbs] = 2

(* ------------------------------------------------------------------ *)
(* Claims: LegacySectorId::derive_piece_index                         *)
(* ------------------------------------------------------------------ *)

\* C3: for every sector ID, piece_offset and non-zero total_pieces,
\* derive_piece_index returns a piece index below total_pieces, and the
\* conversion to u64 inside it succeeds (expect does not panic).
C3_PieceIndexBelowTotal ==
    piece_index # None =>
        /\ piece_index[1] = "PieceIndex"
        /\ piece_index[2] \in 0 .. (total_pieces - 1)

C3_Witness ==
    /\ piece_index # None
    /\ total_pieces = U64_MAX
    /\ Val(from_le_bytes(keyed_hash[<<to_bytes(piece_offset), sector_id>>])) > U64_MAX
    /\ piece_index = <<"PieceIndex", total_pieces - 1>>

(* ------------------------------------------------------------------ *)
(* Claims: the segment header chain                                   *)
(* ------------------------------------------------------------------ *)

\* the link check at position i of a chain (i = 1 is the header of segment 0):
\* prev_segment_header_hash is hash() of the header before, GenesisHash at first
LinkHolds(chain, i) ==
    prev_segment_header_hash(chain[i]) =
        (IF i = 1 THEN GenesisHash ELSE hash(chain[i - 1]))

\* C4: a chain of headers with indices 0..N, each carrying the hash() of the
\* header before it, passes every link check; once any single field of a header
\* that has a successor is changed, that header's hash() differs from the one its
\* successor carries, so the successor's link check fails.
C4_ChainLinkage ==
    /\ mutated = 0 =>
          \A i \in 1 .. Len(headers) :
              segment_index(headers[i]) = i - 1 /\ LinkHolds(headers, i)
    /\ mutated # 0 =>
          /\ hash(headers[mutated]) # prev_segment_header_hash(headers[mutated + 1])
          /\ ~LinkHolds(headers, mutated + 1)

C4_Witness ==
    /\ mutated = 1
    /\ Len(headers) = MaxSegments
    /\ headers[1].last_archived_block = [number |-> 1, archived_progress |-> Partial(7)]
    /\ ~LinkHolds(headers, 2)
    /\ LinkHolds(headers, 1)
    /\ LinkHolds(headers, 3)

(* ------------------------------------------------------------------ *)
(* Claims: LastArchivedBlock                                          *)
(* ------------------------------------------------------------------ *)

\* C8: ArchivedBlockProgress::default() is Complete; after any sequence of
\* set_partial_archived(n) and set_complete() calls partial_archived() is Some(n)
\* if the last call was set_partial_archived(n) and None if it was set_complete(),
\* and None when no call was made on a block with the default progress.
C8_PartialArchivedFollowsLastCall ==
    /\ ArchivedBlockProgressDefault = Complete
    /\ calls = <<>> => partial_archived(last_archived_block) = None
    /\ calls # <<>> =>
          LET last == calls[Len(calls)]
          IN IF last[1] = "set_partial_archived"
             THEN partial_archived(last_archived_block) = Some(last[2])
             ELSE partial_archived(last_archived_block) = None

C8_Witness ==
    /\ Len(calls) = 2
    /\ calls[1] = <<"set_partial_archived", MaxPartial>>
    /\ calls[2][1] = "set_complete"
    /\ partial_archived(last_archived_block) = None

(* ------------------------------------------------------------------ *)
(* Claims: Solution                                                   *)
(* ------------------------------------------------------------------ *)

\* C9: into_reward_address_format returns a solution whose public_key,
\* sector_index, total_pieces, piece_offset, record_commitment_hash, piece_witness,
\* chunk_offset, chunk and chunk_signature equal the input's, and whose
\* reward_address is the input's converted into T and then into RewardAddressB.
C9_OnlyRewardAddressConverted ==
    sol_op = "into_reward_address_format" =>
        /\ IsSome(output)
        /\ DOMAIN Unwrap(output) = DOMAIN solution
        /\ \A field \in DOMAIN solution \ {"reward_address"} :
              Unwrap(output)[field] = solution[field]
        /\ Unwrap(output).reward_address = into_b[into_t[solution.reward_address]]

C9_Witness ==
    /\ sol_op = "into_reward_address_format"
    /\ solution.reward_address = "a2"
    /\ into_t["a2"] = "t1"
    /\ into_b["t1"] = "b2"
    /\ Unwrap(output).reward_address = "b2"
    /\ solution.piece_offset = 1
    /\ solution.chunk_offset = 0
    /\ solution.chunk_signature.output # Zeros(VRF_OUTPUT_LENGTH)

\* C10: genesis_solution(public_key, reward_address) carries exactly those two
\* values, sector_index 0, total_pieces 1, the default piece_offset,
\* record_commitment_hash, piece_witness and chunk, chunk_offset 0 and a
\* chunk_signature whose output and proof are all zero bytes.
C10_GenesisSolution ==
    sol_op = "genesis_solution" =>
        /\ IsSome(output)
        /\ Unwrap(output).public_key = solution.public_key
        /\ Unwrap(output).reward_address = solution.reward_address
        /\ Unwrap(output).sector_index = 0
        /\ Unwrap(output).total_pieces = 1
        /\ Unwrap(output).piece_offset = 0
        /\ Unwrap(output).record_commitment_hash = "Scalar::default"
        /\ Unwrap(output).piece_witness = "Witness::default"
        /\ Unwrap(output).chunk = "ScalarLegacy::default"
        /\ Unwrap(output).chunk_offset = 0
        /\ Len(Unwrap(output).chunk_signature.output) = VRF_OUTPUT_LENGTH
        /\ Len(Unwrap(output).chunk_signature.proof) = VRF_PROOF_LENGTH
        /\ \A p \in 1 .. VRF_OUTPUT_LENGTH : Unwrap(output).chunk_signature.output[p] = 0
        /\ \A p \in 1 .. VRF_PROOF_LENGTH : Unwrap(output).chunk_signature.proof[p] = 0
        /\ DOMAIN Unwrap(output) = DOMAIN solution

C10_Witness ==
    /\ sol_op = "genesis_solution"
    /\ solution.public_key = "pk2"
    /\ solution.reward_address = "a2"
    /\ solution.sector_index = 1
    /\ Unwrap(output).public_key = "pk2"
    /\ Unwrap(output).reward_address = "a2"
    /\ Unwrap(output).sector_index = 0

(* ------------------------------------------------------------------ *)
(* C12                                                                *)
(* ------------------------------------------------------------------ *)

\* C12: u64::try_from(v) is Ok with the same numeric value when v is at
\* most u64::MAX, and an Err carrying the static description when v is
\* above u64::MAX; a value above u64::MAX is never cut down to its low bits.
C12_TryFromU64 ==
    op = "try_from" =>
        IF Val(a) <= U64_MAX
        THEN res.ok /\ res.val = Val(a)
        ELSE ~res.ok /\ res.val = "integer overflow when casting to u64"

\* a value above u64::MAX whose low limb is not zero was refused
C12_Witness ==
    /\ op = "try_from"
    /\ Val(a) > U64_MAX
    /\ a[1] # 0
    /\ ~res.ok

(* ------------------------------------------------------------------ *)
(* C13                                                                *)
(* ------------------------------------------------------------------ *)

RECURSIVE BigEndianSum(_, _)
\* the sum over the positions k .. LimbBytes of hash[k] * ByteMod^(LimbBytes - k)
BigEndianSum(digest, k) ==
    IF k > LimbBytes
    THEN 0
    ELSE digest[k] * Pow(ByteMod, LimbBytes - k) + BigEndianSum(digest, k + 1)

\* C13: derive_local_challenge(global_challenge) is the u64 read big-endian
\* from the leading bytes of the hash of global_challenge keyed with the
\* sector ID: the sum of hash[k] * ByteMod^(LimbBytes - k) over the leading
\* LimbBytes positions, in which no later byte of the hash takes part.
C13_LocalChallengeBigEndian ==
    IsSome(local_challenge) =>
        Unwrap(local_challenge)
            = BigEndianSum(keyed_hash[<<global_challenge, sector_id>>], 1)

\* a hash whose leading bytes read differently in the two byte orders and
\* whose later bytes are not all zero
C13_Witness ==
    /\ IsSome(local_challenge)
    /\ LET digest == keyed_hash[<<global_challenge, sector_id>>]
       IN /\ digest[1] # 0
          /\ digest[LimbBytes] = 0
          /\ \E k \in LimbBytes + 1 .. NumBytes : digest[k] # 0
          /\ Unwrap(local_challenge) >= Pow(ByteMod, LimbBytes - 1)

(* ------------------------------------------------------------------ *)
(* C15                                                                *)
(* ------------------------------------------------------------------ *)

\* the smaller of two integers
MinOfInts(m, n) == IF m <= n THEN m ELSE n

\* C15: bidirectional_distance(a, b) is the smaller of (a - b) mod 2^w and
\* (b - a) mod 2^w, and wrapping_sub(a, b) is a - b when a >= b and
\* a - b + 2^w otherwise, w being the width of U256.
C15_DistanceIsMinOfWrappedDifferences ==
    /\ op = "bidirectional_distance" =>
           Val(res) = MinOfInts((Val(a) - Val(b)) % Modulus,
                                (Val(b) - Val(a)) % Modulus)
    /\ op = "wrapping_sub" =>
           Val(res) = IF Val(a) >= Val(b)
                      THEN Val(a) - Val(b)
                      ELSE Val(a) - Val(b) + Modulus

\* the distance of two values whose subtraction borrows across a limb
C15_Witness ==
    /\ op = "bidirectional_distance"
    /\ Val(a) = LimbMod
    /\ Val(b) = 1
    /\ Val(res) = LimbMod - 1

(* ------------------------------------------------------------------ *)
(* C14                                                                *)
(* ------------------------------------------------------------------ *)

\* C14: the piece at position k (from 0) of the archived segment with index
\* i is put under the key derived from the piece index
\* i * PIECES_IN_SEGMENT + k, which lies in
\* [i * PIECES_IN_SEGMENT, (i + 1) * PIECES_IN_SEGMENT), and no piece index is
\* used as a key for pieces of two different segment indices.
C14_PieceKeysOfSegment ==
    /\ \A p \in puts :
           LET i == p.value[2]
               k == p.value[3]
               idx == IndexOfKey(p.key)
           IN /\ idx = i * PIECES_IN_SEGMENT + k
              /\ p.key = to_multihash(from_index(idx))
              /\ i * PIECES_IN_SEGMENT <= idx
              /\ idx < (i + 1) * PIECES_IN_SEGMENT
    /\ \A p, q \in puts :
           IndexOfKey(p.key) = IndexOfKey(q.key) => p.value[2] = q.value[2]

\* the last piece of segment 1 and the first piece of segment 2 were put,
\* under neighbouring piece indices
C14_Witness ==
    \E p, q \in puts :
        /\ p.value[2] = 1
        /\ p.value[3] = PIECES_IN_SEGMENT - 1
        /\ IndexOfKey(p.key) = 2 * PIECES_IN_SEGMENT - 1
        /\ q.value[2] = 2
        /\ q.value[3] = 0
        /\ IndexOfKey(q.key) = 2 * PIECES_IN_SEGMENT

(* ------------------------------------------------------------------ *)
(* C16                                                                *)
(* ------------------------------------------------------------------ *)

\* the segment indices of the tasks spawned, in the order of spawning
SpawnedIndices == [t \in 1 .. Len(tasks) |-> tasks[t].segment_index]

RECURSIVE CollapseRuns(_)
\* a sequence with each run of equal neighbours cut down to one element
CollapseRuns(seq) ==
    IF Len(seq) <= 1
    THEN seq
    ELSE LET front == CollapseRuns(SubSeq(seq, 1, Len(seq) - 1))
         IN IF seq[Len(seq)] = seq[Len(seq) - 1]
            THEN front
            ELSE Append(front, seq[Len(seq)])

\* equal elements of the sequence are neighbours: no value comes back after
\* a different one
NoIndexReturns(seq) ==
    \A i, j, k \in 1 .. Len(seq) :
        (i < j /\ j < k /\ seq[i] = seq[k]) => seq[j] = seq[i]

\* C16 as stated: over any sequence of notifications, a segment-publishing
\* task is spawned at most once for each distinct segment index.
C16_SpawnedAtMostOncePerIndex ==
    \A s \in 0 .. MaxSegmentIndex :
        Cardinality({t \in 1 .. Len(tasks) : tasks[t].segment_index = s}) <= 1

\* C16 amended: one segment-publishing task is spawned for each run of
\* consecutive notifications with the same segment index, so a task is spawned
\* at most once for a segment index unless that index comes back after a
\* notification with a different one.
C16_SpawnedOncePerRun ==
    /\ SpawnedIndices = CollapseRuns(received)
    /\ NoIndexReturns(received) => C16_SpawnedAtMostOncePerIndex

\* a repeated notification was skipped and a later different one published
C16_Witness ==
    /\ Len(received) = 3
    /\ received[1] = received[2]
    /\ received[3] # received[2]
    /\ Len(tasks) = 2

(* ------------------------------------------------------------------ *)
(* C17                                                                *)
(* ------------------------------------------------------------------ *)

\* C17: a notification spawns a segment-publishing task exactly when its
\* segment index differs from last_published_segment_index (None at first, so
\* the first notification is published); a published notification sets
\* last_published_segment_index to its segment index and a skipped one leaves
\* it as it was; so once a notification has been processed,
\* last_published_segment_index is the segment index of the most recent one.
C17_PublishedIffIndexDiffers ==
    /\ [][received' # received =>
             LET index == received'[Len(received')]
                 spawned == Len(tasks') = Len(tasks) + 1
             IN /\ spawned <=> last_published_segment_index # Some(index)
                /\ spawned =>
                      /\ tasks'[Len(tasks')].segment_index = index
                      /\ last_published_segment_index' = Some(index)
                /\ ~spawned =>
                      /\ tasks' = tasks
                      /\ last_published_segment_index' = last_published_segment_index]_vars
    /\ [](received = <<>> => last_published_segment_index = None /\ tasks = <<>>)
    /\ [](received # <<>> =>
             last_published_segment_index = Some(received[Len(received)]))

\* a first notification was published, its repetition skipped and a
\* different one published after it
C17_Witness ==
    /\ received = <<1, 1, 2>>
    /\ SpawnedIndices = <<1, 2>>
    /\ last_published_segment_index = Some(2)

====
